---- MODULE Spec2Model ----
(***************************************************************************)
(* Model of script.py: a one-shot command line script that asks a          *)
(* browser agent whether a developer's page lists concrete apartment       *)
(* prices and logs the answer to the console and to automation_results.log.*)
(*                                                                         *)
(* Strings are sequences of tokens.  A token is either one character of a  *)
(* variable string (a URL, an agent answer) or one fixed literal of the    *)
(* script.  Polish diacritics and the emoji of the literals are written in *)
(* ASCII: "Brak dostepnych cen mieszkan" stands for the literal of lines   *)
(* 92 and 124, "[page] Result: " for the prefix of line 119, "[ok] " and   *)
(* "[x] " for the check mark and the cross of lines 120, 121 and 127.      *)
(* An optional value (Python None or a value) is the empty set or a        *)
(* singleton.                                                              *)
(***************************************************************************)
EXTENDS Integers, Sequences, FiniteSets, TLC

VARIABLES pc, pid, argv, environ, dotenv, file, console, url_to_check,
          api_key, llm, profile, browser, agent, runCalls, history, now,
          runEndedAt, error

vars == <<pc, pid, argv, environ, dotenv, file, console, url_to_check,
          api_key, llm, profile, browser, agent, runCalls, history, now,
          runEndedAt, error>>

(************************** bounds of the model ****************************)
MaxInvocations == 2
MaxUrlLen == 2
MaxArgs == 2
MaxResultLen == 1

(***************************** small helpers *******************************)
None == {}

Some(v) == {v}

Get(o) == CHOOSE v \in o : TRUE

RECURSIVE StringsUpTo(_, _)
StringsUpTo(alphabet, n) ==
    IF n = 0 THEN {<<>>}
    ELSE LET shorter == StringsUpTo(alphabet, n - 1)
         IN  shorter \cup {Append(s, c) : s \in shorter, c \in alphabet}

Contains(s, t) ==
    \E i \in 0..(Len(s) - Len(t)) : SubSeq(s, i + 1, i + Len(t)) = t

\* Python truthiness of an optional string: None and "" are falsy.
Truthy(o) == o /= None /\ Get(o) /= <<>>

(**************************** inputs of a run ******************************)
\* URL characters; none is "-", so that no argument looks like an option.
UrlChars == {"u", "v"}

Urls == StringsUpTo(UrlChars, MaxUrlLen)

ExtraArg == <<"v">>

RECURSIVE ArgvsUpTo(_)
ArgvsUpTo(n) ==
    IF n = 0 THEN {<<>>}
    ELSE IF n = 1 THEN {<<>>} \cup {<<u>> : u \in Urls}
    ELSE ArgvsUpTo(n - 1) \cup
         {Append(a, ExtraArg) : a \in {b \in ArgvsUpTo(n - 1) : Len(b) = n - 1}}

Argvs == ArgvsUpTo(MaxArgs)

\* GOOGLE_API_KEY in the process environment or in the .env file:
\* unset, set to the empty string, or set to a key.
KeyValues == {None, Some(<<>>), Some(<<"k">>)}

NoPricesAnswer == <<"Brak dostepnych cen mieszkan">>

PricesAnswer == <<"Dostepne ceny mieszkan">>

\* What history.final_result() can be: None or a string.
FinalResults ==
    {None} \cup {Some(s) : s \in StringsUpTo({"r"}, MaxResultLen)}
           \cup {Some(NoPricesAnswer), Some(PricesAnswer)}

(****************************** logging ************************************)
FileModeAppend == "a"

FileMode == "w"

\* logging.FileHandler(log_filename, mode=...) opens the file when built.
FileHandlerOpen(content, mode) == IF mode = "w" THEN <<>> ELSE content

\* load_dotenv() (override=False): a variable already in the environment,
\* even an empty one, is kept; otherwise the .env value is taken.
LoadDotenv(env, envfile) == IF env /= None THEN env ELSE envfile

ConsoleFormat(msg) == <<"INFO     [browser_use] ">> \o msg

FileFormat(msg) == <<" - ">> \o msg

\* One emitted line: the log record's process, time and level, and the
\* text the handler's formatter produced.
Emit(p, t, level, line) ==
    [process |-> p, asctime |-> t, levelname |-> level, line |-> line]

SetupMsg1 == <<"BrowserUse logging setup complete with level info">>

SetupMsg2 == <<"Anonymized telemetry enabled.">>

FileSuccessMsgNoUrl(url, result) == <<"Result: ">> \o result

FileSuccessMsg(url, result) ==
    <<"URL: ">> \o url \o <<" - Result: ">> \o result

ConsoleResultMsg(result) == <<"[page] Result: ">> \o result

TaskCompletedMsg == <<"[ok] Task completed">>

SuccessfullyMsg == <<"[ok] Successfully">>

FileFailureMsgRaw(url, result) ==
    <<"URL: ">> \o url \o <<" - Result: ">> \o result

FileFailureMsg(url, result) ==
    <<"URL: ">> \o url \o <<" - Result: ">> \o NoPricesAnswer

TaskFailedMsg == <<"[x] Task failed">>

(**************************** command line *********************************)
ParseArgsOptional(a) ==
    IF Len(a) = 0 THEN [ok |-> TRUE, url |-> <<>>]
    ELSE [ok |-> Len(a) = 1, url |-> a[1]]

\* parser.parse_args() with one required positional argument 'url'.
ParseArgs(a) ==
    IF Len(a) = 1 THEN [ok |-> TRUE, url |-> a[1]]
    ELSE [ok |-> FALSE, url |-> <<>>]

KeyMissingIsNone(key) == key = None

\* "if not api_key"
KeyMissing(key) == ~Truthy(key)

(***************************** task prompt *********************************)
PromptHead ==
    <<"Zadanie: Analiza cen mieszkan na stronie dewelopera",
      "1. Odwiedz strone: ">>

PromptTail ==
    <<"2. Cel analizy", "3. Kryteria akceptacji cen", "4. Gdzie szukac cen",
      "5. Format odpowiedzi",
      "Jesli znaleziono konkretne ceny: ", "Dostepne ceny mieszkan",
      "Jesli nie znaleziono konkretnych cen: ", "Brak dostepnych cen mieszkan",
      "Uwaga">>

TaskPromptNoUrl(url) == PromptHead \o PromptTail

TaskPrompt(url) == PromptHead \o url \o PromptTail

SleepSeconds == 10

WakeTimeNoDelay(t) == t

\* The time at which "await asyncio.sleep(10)" started at time t resumes.
WakeTime(t) == t + SleepSeconds

AfterRaiseCaught == "sleep"

\* Where control goes when "await agent.run()" raises: nothing catches it.
AfterRaise == "raised"

AfterReturnRetry(result) == IF Truthy(result) THEN "sleep" ELSE "run"

\* Where control goes when "await agent.run()" returns.
AfterReturn(result) == "sleep"

Terminal == {"exit0", "exit2", "raised"}

(******************************* Init **************************************)
Init ==
    /\ pc = "none"
    /\ pid = 0
    /\ argv = <<>>
    /\ environ = None
    /\ dotenv = None
    /\ file = <<>>
    /\ console = <<>>
    /\ url_to_check = None
    /\ api_key = None
    /\ llm = None
    /\ profile = None
    /\ browser = None
    /\ agent = None
    /\ runCalls = 0
    /\ history = None
    /\ now = 0
    /\ runEndedAt = None
    /\ error = "none"

(****************************** actions ************************************)
\* The operating system starts "python script.py <argv>": a fresh process
\* with its own memory and console stream; the log file is on disk.
Launch ==
    /\ pc \in Terminal \cup {"none"}
    /\ pid < MaxInvocations
    /\ pid' = pid + 1
    /\ argv' \in Argvs
    /\ environ' \in KeyValues
    /\ dotenv' \in KeyValues
    /\ pc' = "import"
    /\ console' = <<>>
    /\ url_to_check' = None
    /\ api_key' = None
    /\ llm' = None
    /\ profile' = None
    /\ browser' = None
    /\ agent' = None
    /\ runCalls' = 0
    /\ history' = None
    /\ runEndedAt' = None
    /\ error' = "none"
    /\ UNCHANGED <<file, now>>

\* Module level code, lines 10-36: handlers are built (the file handler
\* opens the log file) and load_dotenv() runs.
ModuleInit ==
    /\ pc = "import"
    /\ file' = FileHandlerOpen(file, FileMode)
    /\ environ' = LoadDotenv(environ, dotenv)
    /\ pc' = "main_block"
    /\ UNCHANGED <<pid, argv, dotenv, console, url_to_check, api_key, llm,
                   profile, browser, agent, runCalls, history, now,
                   runEndedAt, error>>

\* Lines 129-135: two console log lines, then asyncio.run(main()).
MainBlock ==
    /\ pc = "main_block"
    /\ console' = console
           \o <<Emit(pid, now, "INFO", ConsoleFormat(SetupMsg1)),
                Emit(pid, now, "INFO", ConsoleFormat(SetupMsg2))>>
    /\ pc' = "parse"
    /\ UNCHANGED <<pid, argv, environ, dotenv, file, url_to_check, api_key,
                   llm, profile, browser, agent, runCalls, history, now,
                   runEndedAt, error>>

\* Lines 40-43: parse_args() exits the process with status 2 on a usage
\* error.
ParseArguments ==
    /\ pc = "parse"
    /\ LET parsed == ParseArgs(argv)
       IN  IF parsed.ok
           THEN /\ url_to_check' = Some(parsed.url)
                /\ pc' = "getenv"
                /\ error' = error
           ELSE /\ url_to_check' = url_to_check
                /\ pc' = "exit2"
                /\ error' = "SystemExit"
    /\ UNCHANGED <<pid, argv, environ, dotenv, file, console, api_key, llm,
                   profile, browser, agent, runCalls, history, now,
                   runEndedAt>>

\* Lines 46-48.
GetApiKey ==
    /\ pc = "getenv"
    /\ api_key' = environ
    /\ IF KeyMissing(environ)
       THEN /\ pc' = "raised"
            /\ error' = "ValueError"
       ELSE /\ pc' = "llm"
            /\ error' = error
    /\ UNCHANGED <<pid, argv, environ, dotenv, file, console, url_to_check,
                   llm, profile, browser, agent, runCalls, history, now,
                   runEndedAt>>

\* Lines 51-54.
BuildLLM ==
    /\ pc = "llm"
    /\ llm' = Some([model |-> "gemini-2.5-flash", temperature |-> "0.1"])
    /\ pc' = "profile"
    /\ UNCHANGED <<pid, argv, environ, dotenv, file, console, url_to_check,
                   api_key, profile, browser, agent, runCalls, history, now,
                   runEndedAt, error>>

\* Lines 57-63.
BuildProfile ==
    /\ pc = "profile"
    /\ profile' = Some([storage_state |-> "cookies.json",
                        highlight_elements |-> TRUE,
                        highlight_clicks |-> TRUE,
                        debug |-> TRUE])
    /\ pc' = "browser"
    /\ UNCHANGED <<pid, argv, environ, dotenv, file, console, url_to_check,
                   api_key, llm, browser, agent, runCalls, history, now,
                   runEndedAt, error>>

\* Lines 66-69.
BuildBrowser ==
    /\ pc = "browser"
    /\ browser' = Some([browser_profile |-> Get(profile), headless |-> FALSE])
    /\ pc' = "agent"
    /\ UNCHANGED <<pid, argv, environ, dotenv, file, console, url_to_check,
                   api_key, llm, profile, agent, runCalls, history, now,
                   runEndedAt, error>>

\* Lines 72-97.
BuildAgent ==
    /\ pc = "agent"
    /\ agent' = Some([task |-> TaskPrompt(Get(url_to_check)),
                      llm |-> Get(llm),
                      browser |-> Get(browser)])
    /\ pc' = "run"
    /\ UNCHANGED <<pid, argv, environ, dotenv, file, console, url_to_check,
                   api_key, llm, profile, browser, runCalls, history, now,
                   runEndedAt, error>>

\* Line 104, the agent returns a history.
AgentRunReturns ==
    /\ pc = "run"
    /\ \E r \in FinalResults :
          /\ history' = Some([final |-> r])
          /\ pc' = AfterReturn(r)
    /\ runCalls' = runCalls + 1
    /\ runEndedAt' = Some(now)
    /\ UNCHANGED <<pid, argv, environ, dotenv, file, console, url_to_check,
                   api_key, llm, profile, browser, agent, now, error>>

\* Line 104, the agent (or the browser under it) raises.
AgentRunRaises ==
    /\ pc = "run"
    /\ runCalls' = runCalls + 1
    /\ pc' = AfterRaise
    /\ error' = "AgentError"
    /\ runEndedAt' = Some(now)
    /\ UNCHANGED <<pid, argv, environ, dotenv, file, console, url_to_check,
                   api_key, llm, profile, browser, agent, history, now>>

\* Line 108: await asyncio.sleep(10).
Sleep ==
    /\ pc = "sleep"
    /\ now' = WakeTime(now)
    /\ pc' = "report"
    /\ UNCHANGED <<pid, argv, environ, dotenv, file, console, url_to_check,
                   api_key, llm, profile, browser, agent, runCalls, history,
                   runEndedAt, error>>

\* Lines 110-127, then main() returns and the process exits with status 0.
Report ==
    /\ pc = "report"
    /\ LET final_result == IF history = None THEN None ELSE Get(history).final
           url == Get(url_to_check)
           text == IF final_result = None THEN <<>> ELSE Get(final_result)
       IN  IF Truthy(final_result)
           THEN /\ file' = Append(file,
                       Emit(pid, now, "INFO",
                            FileFormat(FileSuccessMsg(url, text))))
                /\ console' = console
                       \o <<Emit(pid, now, "INFO",
                                 ConsoleFormat(ConsoleResultMsg(text))),
                            Emit(pid, now, "INFO",
                                 ConsoleFormat(TaskCompletedMsg)),
                            Emit(pid, now, "INFO",
                                 ConsoleFormat(SuccessfullyMsg))>>
           ELSE /\ file' = Append(file,
                       Emit(pid, now, "WARNING",
                            FileFormat(FileFailureMsg(url, text))))
                /\ console' = Append(console,
                       Emit(pid, now, "WARNING",
                            ConsoleFormat(TaskFailedMsg)))
    /\ pc' = "exit0"
    /\ UNCHANGED <<pid, argv, environ, dotenv, url_to_check, api_key, llm,
                   profile, browser, agent, runCalls, history, now,
                   runEndedAt, error>>

Next ==
    \/ Launch
    \/ ModuleInit
    \/ MainBlock
    \/ ParseArguments
    \/ GetApiKey
    \/ BuildLLM
    \/ BuildProfile
    \/ BuildBrowser
    \/ BuildAgent
    \/ AgentRunReturns
    \/ AgentRunRaises
    \/ Sleep
    \/ Report

Spec == Init /\ [][Next]_vars

TypeOK ==
    /\ pc \in {"none", "import", "main_block", "parse", "getenv", "llm",
               "profile", "browser", "agent", "run", "sleep", "report"}
              \cup Terminal
    /\ pid \in 0..MaxInvocations
    /\ runCalls \in Nat

(************************ vocabulary of the claims *************************)
ObservationWindow == 10

AfterImport == pc \notin {"none", "import"}

Constructed == llm /= None \/ profile /= None \/ browser /= None \/ agent /= None

FinalResult == IF history = None THEN None ELSE Get(history).final

FinalText == IF FinalResult = None THEN <<>> ELSE Get(FinalResult)

SetupLines == {ConsoleFormat(SetupMsg1), ConsoleFormat(SetupMsg2)}

SuccessLines == {ConsoleFormat(TaskCompletedMsg), ConsoleFormat(SuccessfullyMsg)}

\* Console entries other than the two start-up lines of lines 130-131.
ConsoleResultEntries == {i \in DOMAIN console : console[i].line \notin SetupLines}

\* The ways the agent can say "no qualifying price".
NoPriceSignals == {None, Some(<<>>), Some(NoPricesAnswer)}

(******************************** C1 ***************************************)
\* C1: when GOOGLE_API_KEY is unset or empty as main() runs, nothing is
\* constructed (model client, profile, browser, agent), agent.run is never
\* called, neither sink holds a result record, and a run that got past the
\* argument parser ends in the ValueError.
C1_MissingKeyFailsFast ==
    (AfterImport /\ ~Truthy(environ)) =>
        /\ ~Constructed
        /\ runCalls = 0
        /\ history = None
        /\ file = <<>>
        /\ ConsoleResultEntries = {}
        /\ pc \in {"main_block", "parse", "getenv", "exit2", "raised"}
        /\ (pc \in Terminal /\ url_to_check /= None) =>
               (pc = "raised" /\ error = "ValueError")

C1_Witness ==
    /\ pc = "raised"
    /\ error = "ValueError"
    /\ environ = Some(<<>>)
    /\ api_key = Some(<<>>)

(******************************** C2 ***************************************)
\* C2 as stated: after a run whose final result is a non-empty string, the
\* result file AND the console each hold a record of this run containing
\* both that string and the URL of the command line.
C2_BothSinksResultAndUrl ==
    (pc = "exit0" /\ Truthy(FinalResult)) =>
        /\ \E i \in DOMAIN file :
              /\ file[i].process = pid
              /\ Contains(file[i].line, FinalText)
              /\ Contains(file[i].line, argv[1])
        /\ \E j \in DOMAIN console :
              /\ console[j].process = pid
              /\ Contains(console[j].line, FinalText)
              /\ Contains(console[j].line, argv[1])

\* C2 amended: after such a run the result file holds a record containing
\* the exact result string and the URL; the console holds a record
\* containing the exact result string, made of the fixed prefix and the
\* result only (the URL is not part of it).
C2_FileResultAndUrl_ConsoleResult ==
    (pc = "exit0" /\ Truthy(FinalResult)) =>
        /\ \E i \in DOMAIN file :
              /\ file[i].process = pid
              /\ file[i].levelname = "INFO"
              /\ Contains(file[i].line, FinalText)
              /\ Contains(file[i].line, argv[1])
              /\ file[i].line =
                    <<" - ", "URL: ">> \o argv[1] \o <<" - Result: ">> \o FinalText
        /\ \E j \in DOMAIN console :
              /\ console[j].process = pid
              /\ Contains(console[j].line, FinalText)
              /\ console[j].line =
                    <<"INFO     [browser_use] ", "[page] Result: ">> \o FinalText

C2_Witness ==
    /\ pc = "exit0"
    /\ Truthy(FinalResult)
    /\ argv = <<(<<"u", "v">>)>>
    /\ Len(file) = 1
    /\ Len(console) = 5

(******************************** C3 ***************************************)
\* C3 as stated: after a run whose final result is empty or absent, the
\* result file AND the console each hold a record containing the literal
\* "Brak dostepnych cen mieszkan".
C3_BothSinksFixedLiteral ==
    (pc = "exit0" /\ ~Truthy(FinalResult)) =>
        /\ \E i \in DOMAIN file :
              file[i].process = pid /\ Contains(file[i].line, NoPricesAnswer)
        /\ \E j \in DOMAIN console :
              console[j].process = pid /\ Contains(console[j].line, NoPricesAnswer)

\* C3 amended: after such a run the result file holds one warning record,
\* the URL followed by the fixed literal "Brak dostepnych cen mieszkan";
\* the console holds one warning record, the fixed text "Task failed",
\* which does not contain that literal; both are fixed texts that do not
\* depend on what the agent returned.
C3_FileFixedLiteral_ConsoleTaskFailed ==
    (pc = "exit0" /\ ~Truthy(FinalResult)) =>
        /\ Len(file) = 1
        /\ file[1].process = pid
        /\ file[1].levelname = "WARNING"
        /\ file[1].line =
              <<" - ", "URL: ">> \o argv[1]
                  \o <<" - Result: ", "Brak dostepnych cen mieszkan">>
        /\ Cardinality(ConsoleResultEntries) = 1
        /\ \A j \in ConsoleResultEntries :
              /\ console[j].levelname = "WARNING"
              /\ console[j].line = <<"INFO     [browser_use] ", "[x] Task failed">>
              /\ ~Contains(console[j].line, NoPricesAnswer)

C3_Witness ==
    /\ pc = "exit0"
    /\ history = Some([final |-> None])
    /\ Len(file) = 1
    /\ Len(console) = 3

(******************************** C4 ***************************************)
\* C4: a run in which the agent signals "no qualifying price" (an absent or
\* empty final result, or the answer the prompt prescribes for that case)
\* exits normally, is reported by a warning record in both sinks and emits
\* no success line.
C4_NoPriceNeverSuccess ==
    (pc = "exit0" /\ FinalResult \in NoPriceSignals) =>
        /\ \A j \in DOMAIN console : console[j].line \notin SuccessLines
        /\ \E j \in ConsoleResultEntries : console[j].levelname = "WARNING"
        /\ \E i \in DOMAIN file : file[i].levelname = "WARNING"

(******************************** C5 ***************************************)
\* C5: once the module level code of an invocation has run, the result file
\* holds only records written by that invocation, whatever the earlier
\* invocations wrote and however they ended.
C5_FileHoldsOnlyThisRun ==
    AfterImport => \A i \in DOMAIN file : file[i].process = pid

\* Two invocations that both slept and reported; the file holds one record.
C5_Witness ==
    /\ pid = 2
    /\ pc = "exit0"
    /\ now = 2 * ObservationWindow
    /\ Len(file) = 1

(******************************** C6 ***************************************)
\* C6: agent.run is called at most once per invocation, exactly once in an
\* invocation that ended and had a URL argument and a credential, and
\* control is never at the call again once it returned or raised.
C6_RunAtMostOnce ==
    /\ runCalls <= 1
    /\ (pc \in Terminal /\ Len(argv) = 1 /\ Truthy(environ)) => runCalls = 1
    /\ (history /= None \/ error = "AgentError") => (pc /= "run" /\ runCalls = 1)
    /\ pc \in {"sleep", "report", "exit0"} => runCalls = 1

C6_Witness ==
    /\ pc = "exit0"
    /\ runCalls = 1
    /\ history = Some([final |-> Some(<<>>)])

(******************************** C7 ***************************************)
\* C7: when agent.run raises, the process ends with that error after the
\* single call, no history is kept, and neither the result file nor the
\* console holds a result record: the result file is empty.
C7_RaiseWritesNothing ==
    error = "AgentError" =>
        /\ pc = "raised"
        /\ runCalls = 1
        /\ history = None
        /\ file = <<>>
        /\ ConsoleResultEntries = {}

C7_Witness ==
    /\ pc = "raised"
    /\ error = "AgentError"
    /\ agent /= None
    /\ Len(console) = 2

(******************************** C8 ***************************************)
\* C8 as stated: whenever the agent has been constructed the URL is
\* non-empty, and an invocation whose URL is missing or empty is rejected
\* by the parser before the credential is read and the prompt is built.
C8_UrlNonEmpty ==
    /\ agent /= None => Get(url_to_check) /= <<>>
    /\ (pc \notin {"none", "import", "main_block", "parse"}
            /\ (argv = <<>> \/ argv[1] = <<>>)) =>
           (pc = "exit2" /\ error = "SystemExit" /\ ~Constructed)

\* C8 amended: whenever the agent has been constructed the command line
\* held exactly one URL argument, possibly the empty string, and that is
\* the URL of the run; an invocation whose URL is missing is rejected by
\* the parser before the credential is read and the prompt is built.
C8_UrlPresent ==
    /\ agent /= None => (Len(argv) = 1 /\ url_to_check = Some(argv[1]))
    /\ (pc \notin {"none", "import", "main_block", "parse"} /\ Len(argv) /= 1) =>
           /\ pc = "exit2"
           /\ error = "SystemExit"
           /\ url_to_check = None
           /\ api_key = None
           /\ ~Constructed

C8_Witness ==
    /\ agent /= None
    /\ argv = <<(<<>>)>>
    /\ url_to_check = Some(<<>>)

(******************************** C9 ***************************************)
\* C9: the task of the agent is the fixed text up to "1. Odwiedz strone: ",
\* then the URL of the command line, unchanged, then the fixed rest; apart
\* from the URL the prompt is the same for every URL.
C9_PromptHoldsUrl ==
    agent /= None =>
        LET task == Get(agent).task
            url == argv[1]
            at == 2
        IN  /\ Len(task) = at + Len(url) + 9
            /\ task[at] = "1. Odwiedz strone: "
            /\ SubSeq(task, at + 1, at + Len(url)) = url
            /\ SubSeq(task, 1, at) \o SubSeq(task, at + Len(url) + 1, Len(task))
                   = TaskPrompt(<<>>)
            /\ \A c \in UrlChars :
                  \A k \in (1..at) \cup ((at + Len(url) + 1)..Len(task)) :
                      task[k] /= c

C9_Witness ==
    /\ agent /= None
    /\ argv = <<(<<"v", "u">>)>>
    /\ Truthy(api_key)

(******************************** C10 **************************************)
\* C10 as stated: in every run in which agent.run ended, returning or
\* raising, the fixed delay has elapsed after that end by the time the
\* process is over.
C10_SleepAfterEveryRun ==
    (pc \in Terminal /\ runEndedAt /= None) =>
        now >= Get(runEndedAt) + ObservationWindow

\* C10 amended: in every run in which agent.run returns, with a non-empty,
\* an empty or an absent final result, the fixed delay elapses after the
\* return and before any result record is written to either sink; when
\* agent.run raises, the process ends without the delay.
C10_SleepAfterReturn ==
    /\ (history /= None /\ pc \in {"report", "exit0"}) =>
           now >= Get(runEndedAt) + ObservationWindow
    /\ \A i \in DOMAIN file :
           file[i].process = pid =>
               /\ history /= None
               /\ file[i].asctime >= Get(runEndedAt) + ObservationWindow
    /\ \A j \in ConsoleResultEntries :
           /\ history /= None
           /\ console[j].asctime >= Get(runEndedAt) + ObservationWindow
    /\ error = "AgentError" => now = Get(runEndedAt)

C10_Witness ==
    /\ pc = "exit0"
    /\ history = Some([final |-> None])
    /\ Len(file) = 1
    /\ file[1].asctime = Get(runEndedAt) + ObservationWindow
====
